---- MODULE Spec2Model ----
(***************************************************************************)
(* Model of file_renamer.py: the interactive pipeline of main()            *)
(* (get_user_preferences, get_files_to_rename, preview_changes,            *)
(* rename_files) and the pure function generate_suffix.                    *)
(*                                                                         *)
(* Python strings are sequences of one-character strings, so that strip,   *)
(* lower, startswith, endswith, splitext, int() and str() are computed     *)
(* character by character as the library computes them.                    *)
(***************************************************************************)
EXTENDS Integers, Sequences, FiniteSets, TLC

(***************************************************************************)
(* Bounds of the model.                                                    *)
(***************************************************************************)
\* Largest number of entries of a directory built from Pool.
MaxEntries == 3
\* Number of files of the large directory (more than the preview shows).
BigDirLen == 6
\* Largest number of os.rename failures in one run.
MaxOSFailures == 1
\* Largest index handed to generate_suffix in SuffixSpec.
MaxIndex == 760

(***************************************************************************)
(* Python string primitives.                                               *)
(***************************************************************************)
\* string.ascii_lowercase
ascii_lowercase ==
    << "a","b","c","d","e","f","g","h","i","j","k","l","m",
       "n","o","p","q","r","s","t","u","v","w","x","y","z" >>

ascii_uppercase ==
    << "A","B","C","D","E","F","G","H","I","J","K","L","M",
       "N","O","P","Q","R","S","T","U","V","W","X","Y","Z" >>

DigitChars == << "0","1","2","3","4","5","6","7","8","9" >>

\* The whitespace characters str.strip() and int() remove (those of the alphabet).
Whitespace == { " " }

IndexOf(c, alphabet) == CHOOSE k \in 1..Len(alphabet) : alphabet[k] = c

InSeq(c, alphabet) == \E k \in 1..Len(alphabet) : alphabet[k] = c

\* str.lower() on one character
LowerChar(c) ==
    IF InSeq(c, ascii_uppercase) THEN ascii_lowercase[IndexOf(c, ascii_uppercase)] ELSE c

\* str.lower()
lower(s) == [k \in 1..Len(s) |-> LowerChar(s[k])]

RECURSIVE lstrip(_)
lstrip(s) == IF s # <<>> /\ Head(s) \in Whitespace THEN lstrip(Tail(s)) ELSE s

RECURSIVE rstrip(_)
rstrip(s) ==
    IF s # <<>> /\ s[Len(s)] \in Whitespace THEN rstrip(SubSeq(s, 1, Len(s) - 1)) ELSE s

\* str.strip()
strip(s) == rstrip(lstrip(s))

\* str.startswith(prefix)
startswith(s, prefix) ==
    Len(prefix) <= Len(s) /\ SubSeq(s, 1, Len(prefix)) = prefix

\* str.endswith(suffix)
endswith(s, suffix) ==
    Len(suffix) <= Len(s) /\ SubSeq(s, Len(s) - Len(suffix) + 1, Len(s)) = suffix

\* str(n) for n >= 0: the decimal digits, most significant first
RECURSIVE str(_)
str(n) ==
    IF n < 10 THEN << DigitChars[n + 1] >>
    ELSE str(n \div 10) \o << DigitChars[(n % 10) + 1] >>

RECURSIVE DigitsValue(_, _)
DigitsValue(ds, acc) ==
    IF ds = <<>> THEN acc
    ELSE DigitsValue(Tail(ds), 10 * acc + (IndexOf(Head(ds), DigitChars) - 1))

AllDigits(ds) == ds # <<>> /\ \A k \in 1..Len(ds) : InSeq(ds[k], DigitChars)

\* int(s): surrounding whitespace is ignored, one optional sign, then decimal
\* digits; anything else raises ValueError (ok = FALSE).
int(s) ==
    LET t == strip(s)
        signed == t # <<>> /\ Head(t) \in { "+", "-" }
        ds == IF signed THEN Tail(t) ELSE t
    IN  IF AllDigits(ds)
        THEN [ok |-> TRUE,
              val |-> IF signed /\ Head(t) = "-" THEN 0 - DigitsValue(ds, 0)
                      ELSE DigitsValue(ds, 0)]
        ELSE [ok |-> FALSE, val |-> 0]

\* os.path.splitext(filename)[1] for a name without separators: the text from
\* the last dot on, unless only dots precede that dot (then it is empty).
LastDot(name) ==
    IF \E k \in 1..Len(name) : name[k] = "."
    THEN CHOOSE k \in 1..Len(name) :
            name[k] = "." /\ \A j \in (k + 1)..Len(name) : name[j] # "."
    ELSE 0

splitext_ext(name) ==
    LET d == LastDot(name)
    IN  IF d > 0 /\ \E j \in 1..(d - 1) : name[j] # "."
        THEN SubSeq(name, d, Len(name))
        ELSE <<>>

(***************************************************************************)
(* generate_suffix (lines 86-99).                                          *)
(***************************************************************************)
\* The while loop of the letters branch: index and result are its two locals.
RECURSIVE letters_loop(_, _)
letters_loop(index, result) ==
    IF index > 0
    THEN LET dec == index - 1
         IN  letters_loop(dec \div 26, << ascii_lowercase[(dec % 26) + 1] >> \o result)
    ELSE result

\* Variant of generate_suffix: the letters are the digits of ordinary base 26
\* (a = 0), the decrement of line 96 left out.
RECURSIVE base26_loop(_, _)
base26_loop(index, result) ==
    IF index > 0
    THEN base26_loop(index \div 26, << ascii_lowercase[(index % 26) + 1] >> \o result)
    ELSE result

generate_suffix_base26(index, numbering_style) ==
    IF numbering_style = 1 THEN str(index) ELSE base26_loop(index, <<>>)

generate_suffix(index, numbering_style) ==
    IF numbering_style = 1 THEN str(index) ELSE letters_loop(index, <<>>)

(***************************************************************************)
(* The directory.  An entry is [name, kind, id]: kind "file" is a regular  *)
(* file (or a link to one), "dir" a subdirectory, "dangling" a symbolic    *)
(* link whose target is missing; id names the entry's content.  A          *)
(* directory is the sequence of its entries in the order os.listdir        *)
(* enumerates them.                                                        *)
(***************************************************************************)
Entry(n, k, i) == [name |-> n, kind |-> k, id |-> i]

Pool ==
    { Entry(<< "a",".","t","x","t" >>, "file", 1),
      Entry(<< "B",".","T","X","T" >>, "file", 2),
      Entry(<< "p","h","o","t","o","_","1",".","t","x","t" >>, "file", 3),
      Entry(<< "p","h","o","t","o","_","2",".","t","x","t" >>, "dangling", 4),
      Entry(<< "i","m","g","_","a",".","t","x","t" >>, "dir", 5) }

\* All orders of all sets of at most MaxEntries entries of Pool.
PoolDirs ==
    { d \in UNION { [1..n -> Pool] : n \in 0..MaxEntries } :
        \A j, k \in 1..Len(d) : j # k => d[j] # d[k] }

\* The directories of the documented examples, and one of names whose
\* extension is not simply what follows their only dot.
ExampleDirs ==
    { << Entry(<< "a",".","t","x","t" >>, "file", 1),
         Entry(<< "b",".","t","x","t" >>, "file", 2),
         Entry(<< "c",".","j","p","g" >>, "file", 3) >>,
      << Entry(<< "x",".","p","n","g" >>, "file", 1),
         Entry(<< "y",".","p","n","g" >>, "file", 2) >>,
      << Entry(<< "d",".","j","p","g" >>, "file", 1),
         Entry(<< "e",".","j","p","g" >>, "file", 2),
         Entry(<< "f",".","j","p","g" >>, "file", 3) >>,
      << Entry(<< ".","t","x","t" >>, "file", 1),
         Entry(<< "m","y","t","x","t" >>, "file", 2),
         Entry(<< "a",".","b",".","t","x","t" >>, "file", 3) >> }

\* A directory of BigDirLen files 1.txt, 2.txt, ...
BigDir == [k \in 1..BigDirLen |-> Entry(str(k) \o << ".","t","x","t" >>, "file", k)]

Directories == PoolDirs \cup ExampleDirs \cup { BigDir }

Names(d) == { d[k].name : k \in 1..Len(d) }

\* os.path.isfile(os.path.join(directory, f)): follows links
isfile(d, f) == \E k \in 1..Len(d) : d[k].name = f /\ d[k].kind = "file"

\* os.path.exists(path): os.stat succeeds, which it does not on a dangling link
exists(d, f) == \E k \in 1..Len(d) : d[k].name = f /\ d[k].kind # "dangling"

\* os.rename(old, new) succeeding: an entry already at new (which can only be
\* one exists() did not see) is replaced by the renamed entry.
RECURSIVE without(_, _)
without(d, f) ==
    IF d = <<>> THEN <<>>
    ELSE IF Head(d).name = f THEN without(Tail(d), f)
    ELSE << Head(d) >> \o without(Tail(d), f)

rename(d, old, new) ==
    LET kept == without(d, new)
    IN  [k \in 1..Len(kept) |->
            IF kept[k].name = old THEN [kept[k] EXCEPT !.name = new] ELSE kept[k]]

(***************************************************************************)
(* The user's answers: the lines input() can return at each prompt.        *)
(***************************************************************************)
DirectoryAnswers == { <<>>, << "/","w"," " >> }

CommonNameAnswers ==
    { <<>>, << " " >>, << "p","h","o","t","o" >>, << " ","i","m","g"," " >> }

ChoiceAnswers == { <<>>, << "1" >>, << " ","2" >>, << "3" >>, << "x" >>, << "-","1" >> }

StartIndexAnswers ==
    { <<>>, << " " >>, << "0" >>, << "1" >>, << "-","1" >>, << "x" >> }

ExtensionAnswers == { <<>>, << "t","x","t" >>, << ".","T","X","T"," " >> }

ConfirmAnswers == { <<>>, << "y" >>, << " ","Y"," " >>, << "n" >>, << "y","e","s" >> }

\* os.getcwd()
Cwd == << "/","w" >>

(***************************************************************************)
(* State.                                                                  *)
(***************************************************************************)
VARIABLES
    pc,               \* where main() stands: the prompt awaited or the call to make
    called,           \* the functions main() has called, in order
    answer,           \* the line the last input() returned
    dir,              \* the directory's entries, in enumeration order
    dir0,             \* the directory's entries when the program started
    directory,        \* get_user_preferences: local directory
    common_name,      \* get_user_preferences: local common_name
    choice,           \* get_user_preferences: local choice
    start_index,      \* get_user_preferences: local start_index
    extension_filter, \* get_user_preferences: local extension_filter
    preferences,      \* main: "pending", "None" or "dict" (the locals above)
    files,            \* main: the list get_files_to_rename returned
    listed,           \* main: "pending", "None" or "list"
    preview,          \* the (old, new) pairs preview_changes printed
    more,             \* the count of the "... and N more files" line, if printed
    proceed,          \* what preview_changes returned: "pending", "True", "False"
    pos,              \* rename_files: number of list entries processed
    renamed_count,    \* rename_files: local renamed_count
    log,              \* rename_files: what happened to each entry processed
    sIndex,           \* SuffixSpec: argument index of the call
    sStyle,           \* SuffixSpec: argument numbering_style of the call
    sResult           \* SuffixSpec: the call's result

prefVars == << directory, common_name, choice, start_index, extension_filter, preferences >>
listVars == << files, listed >>
previewVars == << preview, more, proceed >>
renameVars == << pos, renamed_count, log >>
suffixVars == << sIndex, sStyle, sResult >>
vars == << pc, called, answer, dir, dir0, prefVars, listVars, previewVars,
           renameVars, suffixVars >>

Init ==
    /\ pc = "directory"
    /\ called = << "get_user_preferences" >>
    /\ answer = <<>>
    /\ dir \in Directories
    /\ dir0 = dir
    /\ directory = <<>>
    /\ common_name = <<>>
    /\ choice = 0
    /\ start_index = 0
    /\ extension_filter = <<>>
    /\ preferences = "pending"
    /\ files = <<>>
    /\ listed = "pending"
    /\ preview = <<>>
    /\ more = <<>>
    /\ proceed = "pending"
    /\ pos = 0
    /\ renamed_count = 0
    /\ log = <<>>
    /\ sIndex = 0
    /\ sStyle = 1
    /\ sResult = <<>>

(***************************************************************************)
(* get_user_preferences (lines 4-56), one action per input() call, and     *)
(* main's test of its result (lines 161-163).                              *)
(***************************************************************************)
\* lines 11-13
InputDirectory ==
    /\ pc = "directory"
    /\ \E a \in DirectoryAnswers :
        /\ answer' = a
        /\ directory' = IF strip(a) = <<>> THEN Cwd ELSE strip(a)
    /\ pc' = "common_name"
    /\ UNCHANGED << called, dir, dir0, common_name, choice, start_index,
                    extension_filter, preferences, listVars, previewVars,
                    renameVars, suffixVars >>

\* lines 16-19, and 162-163 when None is returned
InputCommonName ==
    /\ pc = "common_name"
    /\ \E a \in CommonNameAnswers :
        /\ answer' = a
        /\ common_name' = strip(a)
    /\ IF common_name' = <<>>
       THEN preferences' = "None" /\ pc' = "done"
       ELSE preferences' = preferences /\ pc' = "choice"
    /\ UNCHANGED << called, dir, dir0, directory, choice, start_index,
                    extension_filter, listVars, previewVars, renameVars, suffixVars >>

\* Variant of ValidChoice: 3 is taken too.
ValidChoiceUpTo3(c) == c \in { 1, 2, 3 }

\* line 29
ValidChoice(c) == c \in { 1, 2 }

\* lines 26-34: one pass of the loop
InputChoice ==
    /\ pc = "choice"
    /\ \E a \in ChoiceAnswers :
        /\ answer' = a
        /\ LET r == int(a)
           IN  IF r.ok
               THEN /\ choice' = r.val
                    /\ pc' = IF ValidChoice(r.val) THEN "start_index" ELSE "choice"
               ELSE /\ choice' = choice
                    /\ pc' = "choice"
    /\ UNCHANGED << called, dir, dir0, directory, common_name, start_index,
                    extension_filter, preferences, listVars, previewVars,
                    renameVars, suffixVars >>

\* line 40
ValidStartIndex(n) == n >= 0

\* lines 37-45: one pass of the loop
InputStartIndex ==
    /\ pc = "start_index"
    /\ \E a \in StartIndexAnswers :
        /\ answer' = a
        /\ LET r == int(IF a = <<>> THEN << "1" >> ELSE a)
           IN  IF r.ok
               THEN /\ start_index' = r.val
                    /\ pc' = IF ValidStartIndex(r.val) THEN "extension_filter"
                             ELSE "start_index"
               ELSE /\ start_index' = start_index
                    /\ pc' = "start_index"
    /\ UNCHANGED << called, dir, dir0, directory, common_name, choice,
                    extension_filter, preferences, listVars, previewVars,
                    renameVars, suffixVars >>

\* lines 48-56, and 166: main goes on to call get_files_to_rename
InputExtensionFilter ==
    /\ pc = "extension_filter"
    /\ \E a \in ExtensionAnswers :
        /\ answer' = a
        /\ extension_filter' = lower(strip(a))
    /\ preferences' = "dict"
    /\ called' = Append(called, "get_files_to_rename")
    /\ pc' = "get_files_to_rename"
    /\ UNCHANGED << dir, dir0, directory, common_name, choice, start_index,
                    listVars, previewVars, renameVars, suffixVars >>

(***************************************************************************)
(* get_files_to_rename (lines 58-84) and main's test of its result         *)
(* (lines 166-169).                                                        *)
(***************************************************************************)
\* line 64: the names os.listdir yields, in its order, that are files
all_files(d) ==
    LET names == [k \in 1..Len(d) |-> d[k].name]
    IN  SelectSeq(names, LAMBDA f : isfile(d, f))

\* lines 69-70
with_dot(ext) == IF startswith(ext, << "." >>) THEN ext ELSE << "." >> \o ext

\* Variant of matches: the name is compared as it is spelled.
matches_case_sensitive(f, ext) == endswith(f, ext)

\* line 72
matches(f, ext) == endswith(lower(f), ext)

\* lines 64-77: the list returned when os.listdir succeeds
get_files_to_rename(d, ext) ==
    IF ext # <<>>
    THEN SelectSeq(all_files(d), LAMBDA f : matches(f, with_dot(ext)))
    ELSE all_files(d)

\* lines 64-77, 167-169: the directory is listed
ListFiles ==
    /\ pc = "get_files_to_rename"
    /\ files' = get_files_to_rename(dir, extension_filter)
    /\ listed' = "list"
    /\ IF files' = <<>>
       THEN pc' = "done" /\ called' = called
       ELSE pc' = "preview_changes" /\ called' = Append(called, "preview_changes")
    /\ UNCHANGED << answer, dir, dir0, prefVars, previewVars, renameVars, suffixVars >>

\* lines 79-81, 167-169: os.listdir raises FileNotFoundError
ListFilesNotFound ==
    /\ pc = "get_files_to_rename"
    /\ listed' = "None"
    /\ pc' = "done"
    /\ UNCHANGED << called, answer, dir, dir0, prefVars, files, previewVars,
                    renameVars, suffixVars >>

\* lines 82-84, 167-169: os.listdir raises PermissionError
ListFilesPermissionDenied ==
    /\ pc = "get_files_to_rename"
    /\ listed' = "None"
    /\ pc' = "done"
    /\ UNCHANGED << called, answer, dir, dir0, prefVars, files, previewVars,
                    renameVars, suffixVars >>

\* line 64: os.listdir raises another OSError (the path is not a directory),
\* which nothing catches: the program ends with a traceback
ListFilesUncaught ==
    /\ pc = "get_files_to_rename"
    /\ pc' = "crashed"
    /\ UNCHANGED << called, answer, dir, dir0, prefVars, listVars, previewVars,
                    renameVars, suffixVars >>

(***************************************************************************)
(* preview_changes (lines 137-154) and main's test of its result           *)
(* (lines 172-180).                                                        *)
(***************************************************************************)
\* lines 145, 151, 152: the number of files previewed
PreviewLimit == 5

\* Variant of preview_new_filename: the suffix is always the number.
preview_new_filename_numeric(name, style, i, filename) ==
    name \o << "_" >> \o str(i) \o splitext_ext(filename)

\* lines 146-148
preview_new_filename(name, style, i, filename) ==
    name \o << "_" >> \o generate_suffix(i, style) \o splitext_ext(filename)

\* line 145: files[:5]
shown(fs) == SubSeq(fs, 1, IF Len(fs) < PreviewLimit THEN Len(fs) ELSE PreviewLimit)

\* lines 145-149: the lines printed, with the index each was computed from
preview_lines(fs, name, style, start) ==
    [k \in 1..Len(shown(fs)) |->
        [old |-> fs[k],
         index |-> start + (k - 1),
         new |-> preview_new_filename(name, style, start + (k - 1), fs[k])]]

\* lines 151-152
more_line(fs) == IF Len(fs) > PreviewLimit THEN << Len(fs) - PreviewLimit >> ELSE <<>>

\* Variant of is_yes: whatever is not "n" counts as a yes.
is_yes_unless_n(a) == lower(strip(a)) # << "n" >>

\* line 154
is_yes(a) == lower(strip(a)) = << "y" >>

PreviewChanges ==
    /\ pc = "preview_changes"
    /\ preview' = preview_lines(files, common_name, choice, start_index)
    /\ more' = more_line(files)
    /\ \E a \in ConfirmAnswers :
        /\ answer' = a
        /\ IF is_yes(a)
           THEN /\ proceed' = "True"
                /\ pc' = "rename_files"
                /\ called' = Append(called, "rename_files")
           ELSE /\ proceed' = "False"
                /\ pc' = "done"
                /\ called' = called
    /\ UNCHANGED << dir, dir0, prefVars, listVars, renameVars, suffixVars >>

(***************************************************************************)
(* rename_files (lines 101-135), one action per pass of the loop and per   *)
(* way the pass can go, and its return to main (lines 183-193).            *)
(***************************************************************************)
\* Variant of new_filename: the extension is what follows the first dot.
new_filename_first_dot(name, style, i, filename) ==
    LET dots == { k \in 1..Len(filename) : filename[k] = "." }
        first == IF dots = {} THEN Len(filename) + 1
                 ELSE CHOOSE k \in dots : \A j \in dots : k <= j
    IN  name \o << "_" >> \o generate_suffix(i, style)
             \o SubSeq(filename, first, Len(filename))

\* lines 111-117
new_filename(name, style, i, filename) ==
    name \o << "_" >> \o generate_suffix(i, style) \o splitext_ext(filename)

\* line 109: enumerate(files, start=start_index)
filename_at(p) == files[p + 1]
index_at(p) == start_index + p
target_at(p) == new_filename(common_name, choice, index_at(p), filename_at(p))

\* What the pass over the entry at position p found and did.
Pass(p, outcome) ==
    [filename |-> filename_at(p),
     index |-> index_at(p),
     new_filename |-> target_at(p),
     occupied |-> target_at(p) \in Names(dir),
     outcome |-> outcome]

OSFailures == Cardinality({ k \in 1..Len(log) : log[k].outcome = "error" })

\* lines 122-124
RenameSkip ==
    /\ pc = "rename_files"
    /\ pos < Len(files)
    /\ exists(dir, target_at(pos))
    /\ log' = Append(log, Pass(pos, "skipped"))
    /\ pos' = pos + 1
    /\ UNCHANGED << pc, called, answer, dir, dir0, prefVars, listVars,
                    previewVars, renamed_count, suffixVars >>

\* lines 126-130
RenameDone ==
    /\ pc = "rename_files"
    /\ pos < Len(files)
    /\ ~ exists(dir, target_at(pos))
    /\ dir' = rename(dir, filename_at(pos), target_at(pos))
    /\ renamed_count' = renamed_count + 1
    /\ log' = Append(log, Pass(pos, "renamed"))
    /\ pos' = pos + 1
    /\ UNCHANGED << pc, called, answer, dir0, prefVars, listVars, previewVars,
                    suffixVars >>

\* Variant of RenameOSError: the OSError is not caught and ends the program.
RenameOSErrorUncaught ==
    /\ pc = "rename_files"
    /\ pos < Len(files)
    /\ ~ exists(dir, target_at(pos))
    /\ OSFailures < MaxOSFailures
    /\ pc' = "crashed"
    /\ UNCHANGED << called, answer, dir, dir0, prefVars, listVars, previewVars,
                    renameVars, suffixVars >>

\* lines 126-128, 132-133: os.rename raises OSError
RenameOSError ==
    /\ pc = "rename_files"
    /\ pos < Len(files)
    /\ ~ exists(dir, target_at(pos))
    /\ OSFailures < MaxOSFailures
    /\ log' = Append(log, Pass(pos, "error"))
    /\ pos' = pos + 1
    /\ UNCHANGED << pc, called, answer, dir, dir0, prefVars, listVars,
                    previewVars, renamed_count, suffixVars >>

\* lines 135, 183-193
RenameReturn ==
    /\ pc = "rename_files"
    /\ pos = Len(files)
    /\ pc' = "done"
    /\ UNCHANGED << called, answer, dir, dir0, prefVars, listVars, previewVars,
                    renameVars, suffixVars >>

Next ==
    \/ InputDirectory
    \/ InputCommonName
    \/ InputChoice
    \/ InputStartIndex
    \/ InputExtensionFilter
    \/ ListFiles
    \/ ListFilesNotFound
    \/ ListFilesPermissionDenied
    \/ ListFilesUncaught
    \/ PreviewChanges
    \/ RenameSkip
    \/ RenameDone
    \/ RenameOSError
    \/ RenameReturn

Spec == Init /\ [][Next]_vars

(***************************************************************************)
(* generate_suffix called on its own, on every index up to MaxIndex.       *)
(***************************************************************************)
SuffixInit ==
    /\ pc = "generate_suffix"
    /\ called = <<>>
    /\ answer = <<>>
    /\ dir = <<>>
    /\ dir0 = <<>>
    /\ directory = <<>>
    /\ common_name = <<>>
    /\ choice = 0
    /\ start_index = 0
    /\ extension_filter = <<>>
    /\ preferences = "pending"
    /\ files = <<>>
    /\ listed = "pending"
    /\ preview = <<>>
    /\ more = <<>>
    /\ proceed = "pending"
    /\ pos = 0
    /\ renamed_count = 0
    /\ log = <<>>
    /\ sIndex \in 0..MaxIndex
    /\ sStyle \in { 1, 2 }
    /\ sResult = <<>>

CallGenerateSuffix ==
    /\ pc = "generate_suffix"
    /\ sResult' = generate_suffix(sIndex, sStyle)
    /\ pc' = "returned"
    /\ UNCHANGED << called, answer, dir, dir0, prefVars, listVars, previewVars,
                    renameVars, sIndex, sStyle >>

SuffixNext == CallGenerateSuffix

SuffixSpec == SuffixInit /\ [][SuffixNext]_vars

(***************************************************************************)
(* Vocabulary of the properties: what the documentation means by a blank   *)
(* answer, a decimal string, a bijective base-26 numeral, an extension.    *)
(***************************************************************************)
Blank(a) == \A k \in 1..Len(a) : a[k] = " "

\* a is "y" or "Y" with spaces around it
SaysYes(a) ==
    \E k \in 1..Len(a) :
        /\ a[k] \in { "y", "Y" }
        /\ \A j \in 1..Len(a) : j # k => a[j] = " "

OnlyLetters(s) == \A k \in 1..Len(s) : \E c \in 1..26 : ascii_lowercase[c] = s[k]

\* The number a bijective base-26 numeral denotes: a = 1, ..., z = 26, and
\* each place counts 26 times the next.
RECURSIVE LetterValue(_)
LetterValue(s) ==
    IF s = <<>> THEN 0
    ELSE 26 * LetterValue(SubSeq(s, 1, Len(s) - 1))
         + (CHOOSE c \in 1..26 : ascii_lowercase[c] = s[Len(s)])

OnlyDigits(s) == \A k \in 1..Len(s) : \E c \in 1..10 : DigitChars[c] = s[k]

RECURSIVE DecimalValue(_)
DecimalValue(s) ==
    IF s = <<>> THEN 0
    ELSE 10 * DecimalValue(SubSeq(s, 1, Len(s) - 1))
         + ((CHOOSE c \in 1..10 : DigitChars[c] = s[Len(s)]) - 1)

\* s is the decimal string of n
IsDecimalOf(s, n) ==
    /\ s # <<>>
    /\ OnlyDigits(s)
    /\ Len(s) > 1 => s[1] # "0"
    /\ DecimalValue(s) = n

\* s is the bijective base-26 numeral of n (the empty numeral denotes 0)
IsLettersOf(s, n) == OnlyLetters(s) /\ LetterValue(s) = n

\* e is the extension of the file name f: the last dot and what follows it,
\* provided something other than dots stands before that dot; else nothing.
IsExtensionOf(e, f) ==
    /\ Len(e) <= Len(f)
    /\ \A k \in 1..Len(e) : e[k] = f[Len(f) - Len(e) + k]
    /\ \/ /\ e # <<>>
          /\ e[1] = "."
          /\ \A k \in 2..Len(e) : e[k] # "."
          /\ \E k \in 1..(Len(f) - Len(e)) : f[k] # "."
       \/ /\ e = <<>>
          /\ \A k \in 1..Len(f) : f[k] = "." => \A j \in 1..(k - 1) : f[j] = "."

\* t ends with s
IsSuffixOf(s, t) ==
    /\ Len(s) <= Len(t)
    /\ \A k \in 1..Len(s) : s[k] = t[Len(t) - Len(s) + k]

\* main has called function f.
Called(f) == \E k \in 1..Len(called) : called[k] = f

\* The program has ended.
Ended == pc \in { "done", "crashed" }

\* A rename is under way or has been performed.
C1_Renaming == pc = "rename_files" \/ Called("rename_files") \/ log # <<>> \/ dir # dir0

\* One of the conditions under which main returns before rename_files.
C1_Halted ==
    \/ preferences = "None"
    \/ listed = "None"
    \/ listed = "list" /\ files = <<>>
    \/ Called("preview_changes") /\ ~ SaysYes(answer)

(***************************************************************************)
(* C1.  A rename is performed only after get_user_preferences returned a   *)
(* job, get_files_to_rename returned a non-empty list and preview_changes  *)
(* returned true on an answer that is exactly "y" once trimmed and         *)
(* lowercased, in that order.  With an empty base name, a failed or empty  *)
(* listing, or any other answer, rename_files is never called and the      *)
(* directory is unchanged when the run ends.                               *)
(***************************************************************************)
C1_RenameOnlyAfterConfirm ==
    /\ C1_Renaming =>
        /\ called = << "get_user_preferences", "get_files_to_rename",
                       "preview_changes", "rename_files" >>
        /\ preferences = "dict"
        /\ listed = "list"
        /\ files # <<>>
        /\ proceed = "True"
        /\ SaysYes(answer)
    /\ (Ended /\ C1_Halted) =>
        /\ ~ Called("rename_files")
        /\ dir = dir0
        /\ log = <<>>
        /\ renamed_count = 0

\* A run that renamed a file, and so went through every stage.
C1_Witness == pc = "done" /\ renamed_count > 0 /\ dir # dir0

(***************************************************************************)
(* C2.  A listed file whose destination path already holds an entry when   *)
(* the file is reached is skipped: it keeps its name, the entry at the     *)
(* destination is neither overwritten nor removed, the count is not        *)
(* incremented; so no entry the directory held before the run is           *)
(* overwritten.                                                            *)
(***************************************************************************)
C2_CollisionSkipped ==
    /\ \A k \in 1..Len(log) : log[k].occupied => log[k].outcome = "skipped"
    /\ \A j \in 1..Len(dir0) :
          \E k \in 1..Len(dir) : dir[k].id = dir0[j].id /\ dir[k].kind = dir0[j].kind

\* The passes made so far are the first pos entries of the list, in order; a
\* file whose rename failed is still there under its name; a pass can always
\* be made or the function can return.
C3_Inv ==
    /\ Len(log) = pos
    /\ pos <= Len(files)
    /\ \A k \in 1..Len(log) : log[k].filename = files[k]
    /\ \A k \in 1..Len(log) :
          log[k].outcome = "error" =>
              \E j \in 1..Len(dir) :
                  /\ dir[j].name = log[k].filename
                  /\ \E i \in 1..Len(dir0) : dir0[i] = dir[j]
    /\ (Ended /\ Called("rename_files")) => pc = "done" /\ Len(log) = Len(files)
    /\ pc = "rename_files" => ENABLED (RenameSkip \/ RenameDone \/ RenameReturn)

\* Each step of rename_files is one pass, or the return after the last entry;
\* a pass that failed changed neither the directory nor the count.
C3_Step ==
    pc = "rename_files" =>
        /\ pc' = "rename_files" => pos' = pos + 1 /\ files' = files
        /\ pc' # "rename_files" => pc' = "done" /\ pos = Len(files)
        /\ (log' # log /\ log'[Len(log')].outcome = "error") =>
              renamed_count' = renamed_count /\ dir' = dir

(***************************************************************************)
(* C3.  An OSError of os.rename on the file at position p touches that     *)
(* file only: it keeps its old name, the count is not incremented, and     *)
(* the files after p are still processed.  Whatever collisions and         *)
(* failures occur, rename_files goes through the list once, in order, one  *)
(* entry per pass, and returns.                                            *)
(***************************************************************************)
C3_FailureIsolated == []C3_Inv /\ [][C3_Step]_vars

\* An OSError on a file that is not the last one, after which a later file
\* was renamed.
C3_Witness ==
    /\ pc = "done"
    /\ \E j, k \in 1..Len(log) :
          j < k /\ log[j].outcome = "error" /\ log[k].outcome = "renamed"

\* The number of files reached with an entry at their destination.
C4_Collisions == Cardinality({ k \in 1..Len(log) : log[k].occupied })

(***************************************************************************)
(* C4.  rename_files returns the number of listed files actually renamed:  *)
(* a file counts if and only if no entry was at its destination when it    *)
(* was reached and os.rename succeeded; so 0 <= count <= len(files) and    *)
(* count = len(files) - collision skips - OS failures.                     *)
(***************************************************************************)
C4_CountExact ==
    /\ renamed_count =
          Cardinality({ k \in 1..Len(log) :
                          ~ log[k].occupied /\ log[k].outcome # "error" })
    /\ 0 <= renamed_count
    /\ renamed_count <= Len(files)
    /\ (pc = "done" /\ Called("rename_files")) =>
          renamed_count = Len(files) - C4_Collisions - OSFailures

(***************************************************************************)
(* C5.  For every index >= 1, generate_suffix(index, letters) returns the  *)
(* bijective base-26 numeral of index over a-z: 1..26 give "a".."z", 27    *)
(* "aa", 28 "ab", 52 "az", 53 "ba"; different indexes give different       *)
(* suffixes, and the suffix is never empty.                                *)
(***************************************************************************)
C5_BijectiveBase26 ==
    (pc = "returned" /\ sStyle = 2 /\ sIndex >= 1) =>
        /\ sResult # <<>>
        /\ IsLettersOf(sResult, sIndex)
        /\ sIndex <= 26 => sResult = << ascii_lowercase[sIndex] >>
        /\ sIndex = 27 => sResult = << "a","a" >>
        /\ sIndex = 28 => sResult = << "a","b" >>
        /\ sIndex = 52 => sResult = << "a","z" >>
        /\ sIndex = 53 => sResult = << "b","a" >>
        /\ \A j \in 1..MaxIndex : j # sIndex => generate_suffix(j, 2) # sResult

\* The first three-letter suffix has been returned.
C5_Witness ==
    pc = "returned" /\ sStyle = 2 /\ sIndex = 703 /\ sResult = << "a","a","a" >>

\* The destination of pass r, at position p, is made of the base name, "_",
\* the numeral of start_index + p and the extension of the file.
C6_Parts(r, p) ==
    \E e \in { SubSeq(r.filename, k, Len(r.filename)) : k \in 1..(Len(r.filename) + 1) } :
        /\ IsExtensionOf(e, r.filename)
        /\ LET n == r.new_filename
               head == Len(common_name) + 1
               sfx == SubSeq(n, head + 1, Len(n) - Len(e))
           IN  /\ Len(n) >= head + Len(e)
               /\ SubSeq(n, 1, head) = common_name \o << "_" >>
               /\ SubSeq(n, Len(n) - Len(e) + 1, Len(n)) = e
               /\ r.index = start_index + p
               /\ choice = 1 => IsDecimalOf(sfx, start_index + p)
               /\ choice = 2 => IsLettersOf(sfx, start_index + p)

\* photo, numbers, 1, [x.png, y.png]
C6_PhotoExample ==
    ( /\ common_name = << "p","h","o","t","o" >>
      /\ choice = 1
      /\ start_index = 1
      /\ files = << << "x",".","p","n","g" >>, << "y",".","p","n","g" >> >> )
    => \A k \in 1..Len(log) :
          log[k].new_filename =
              << "p","h","o","t","o","_", DigitChars[k + 1], ".","p","n","g" >>

\* img, letters, 1, three .jpg files
C6_ImgExample ==
    ( /\ common_name = << "i","m","g" >>
      /\ choice = 2
      /\ start_index = 1
      /\ Len(files) = 3
      /\ \A k \in 1..3 : IsSuffixOf(<< ".","j","p","g" >>, files[k]) )
    => \A k \in 1..Len(log) :
          log[k].new_filename = << "i","m","g","_", ascii_lowercase[k], ".","j","p","g" >>

(***************************************************************************)
(* C6.  The destination rename_files computes for the file at 0-based      *)
(* position p is baseName, "_", suffix(startIndex + p, style) and the      *)
(* file's own extension (with its dot; empty if it has none); the numeric  *)
(* suffix is the decimal string of the index.  photo, numeric, 1 on        *)
(* [x.png, y.png] gives photo_1.png, photo_2.png; img, letters, 1 on       *)
(* three .jpg files gives the suffixes a, b, c.                            *)
(***************************************************************************)
C6_DestinationName ==
    /\ \A k \in 1..Len(log) : C6_Parts(log[k], k - 1)
    /\ C6_PhotoExample
    /\ C6_ImgExample

\* The second file of the photo example has been given its destination.
C6_Witness ==
    /\ common_name = << "p","h","o","t","o" >>
    /\ choice = 1
    /\ start_index = 1
    /\ files = << << "x",".","p","n","g" >>, << "y",".","p","n","g" >> >>
    /\ Len(log) = 2
    /\ log[2].new_filename = << "p","h","o","t","o","_","2",".","p","n","g" >>
    /\ \E k \in 1..Len(dir) : dir[k].name = log[2].new_filename

\* The filter with its leading dot.
C7_Filter ==
    IF extension_filter = <<>> \/ extension_filter[1] = "." THEN extension_filter
    ELSE << "." >> \o extension_filter

\* Entry e is a file the filter takes.
C7_Wanted(e) == e.kind = "file" /\ IsSuffixOf(C7_Filter, lower(e.name))

\* The place of name f in the enumeration of the directory.
C7_Place(f) == CHOOSE k \in 1..Len(dir0) : dir0[k].name = f

\* [a.txt, b.txt, c.jpg] under "txt" or ".txt"
C7_Example ==
    ( /\ Len(dir0) = 3
      /\ dir0[1].name = << "a",".","t","x","t" >>
      /\ dir0[2].name = << "b",".","t","x","t" >>
      /\ dir0[3].name = << "c",".","j","p","g" >>
      /\ extension_filter \in { << "t","x","t" >>, << ".","t","x","t" >> } )
    => files = << << "a",".","t","x","t" >>, << "b",".","t","x","t" >> >>

(***************************************************************************)
(* C7.  get_files_to_rename returns, in enumeration order, exactly the     *)
(* regular files of the directory (subdirectories left out) whose          *)
(* lowercased name ends with the filter, a dot being put before a          *)
(* non-empty filter that lacks one; all regular files when the filter is   *)
(* empty.  [a.txt, b.txt, c.jpg] with ".txt" or "txt" gives                *)
(* [a.txt, b.txt].  A missing or unreadable directory gives no list.       *)
(***************************************************************************)
C7_ListedFiles ==
    /\ listed = "list" =>
        /\ \A k \in 1..Len(files) :
              \E j \in 1..Len(dir0) : dir0[j].name = files[k] /\ C7_Wanted(dir0[j])
        /\ \A j \in 1..Len(dir0) :
              C7_Wanted(dir0[j]) => \E k \in 1..Len(files) : files[k] = dir0[j].name
        /\ \A j, k \in 1..Len(files) : j < k => C7_Place(files[j]) < C7_Place(files[k])
        /\ C7_Example
    /\ listed = "None" =>
        /\ files = <<>>
        /\ pc = "done"
        /\ ~ Called("preview_changes")

\* A listing under the filter "txt" that took a file spelled in capitals and
\* left out a subdirectory.
C7_Witness ==
    /\ listed = "list"
    /\ extension_filter = << "t","x","t" >>
    /\ \E k \in 1..Len(files) : files[k] = << "B",".","T","X","T" >>
    /\ \E j \in 1..Len(dir0) : dir0[j].kind = "dir"
    /\ Len(files) = 2

\* What holds of the result of get_user_preferences.
C8_Inv ==
    /\ preferences = "None" =>
        /\ common_name = <<>>
        /\ Blank(answer)
        /\ pc = "done"
        /\ listed = "pending"
        /\ ~ Called("get_files_to_rename")
    /\ preferences = "dict" =>
        /\ common_name # <<>>
        /\ ~ Blank(common_name)
        /\ choice \in { 1, 2 }
        /\ start_index >= 0
    /\ pc \in { "choice", "start_index", "extension_filter" } =>
          preferences = "pending" /\ common_name # <<>>

\* What each answer to a prompt of get_user_preferences leads to.
C8_Step ==
    /\ pc = "common_name" =>
        /\ preferences' = "None" <=> Blank(answer')
        /\ ~ Blank(answer') => pc' = "choice" /\ preferences' = "pending"
    /\ pc = "choice" =>
        /\ pc' \in { "choice", "start_index" }
        /\ preferences' = "pending"
        /\ pc' = "start_index" => choice' \in { 1, 2 }
        /\ answer' = << "1" >> => pc' = "start_index" /\ choice' = 1
        /\ answer' = << " ","2" >> => pc' = "start_index" /\ choice' = 2
        /\ answer' \in { <<>>, << "3" >>, << "x" >>, << "-","1" >> } => pc' = "choice"
    /\ pc = "start_index" =>
        /\ pc' \in { "start_index", "extension_filter" }
        /\ preferences' = "pending"
        /\ pc' = "extension_filter" => start_index' >= 0
        /\ answer' = <<>> => pc' = "extension_filter" /\ start_index' = 1
        /\ answer' = << "0" >> => pc' = "extension_filter" /\ start_index' = 0
        /\ answer' = << "1" >> => pc' = "extension_filter" /\ start_index' = 1
        /\ answer' \in { << " " >>, << "-","1" >>, << "x" >> } => pc' = "start_index"
    /\ pc = "extension_filter" => preferences' = "dict"

(***************************************************************************)
(* C8.  get_user_preferences returns no job exactly when the base name is  *)
(* empty once trimmed, and then the listing never runs; otherwise it       *)
(* returns a job with a non-empty base name, a numbering style of 1 or 2   *)
(* and a start index >= 0 (1 on a blank answer).  A wrong numbering        *)
(* choice or start index never ends the job: the prompt is repeated.       *)
(***************************************************************************)
C8_Preferences == []C8_Inv /\ [][C8_Step]_vars

\* A wrong numbering choice has been answered and the prompt stands again.
C8_Witness == pc = "choice" /\ choice = 3 /\ answer = << "3" >> /\ preferences = "pending"

(***************************************************************************)
(* C9.  No caller passes an index <= 0 to generate_suffix: every call      *)
(* preview_changes or rename_files makes has index >= 1, so no file gets   *)
(* an empty letter suffix.                                                 *)
(***************************************************************************)
C9_IndexAtLeastOne ==
    /\ \A k \in 1..Len(preview) : preview[k].index >= 1
    /\ \A k \in 1..Len(log) : log[k].index >= 1
    /\ choice = 2 =>
          \A k \in 1..Len(log) : log[k].new_filename # common_name \o << "_" >> \o
                                                       splitext_ext(log[k].filename)

(***************************************************************************)
(* C10.  preview_changes prints min(5, n) pairs for n files, from indexes  *)
(* startIndex, startIndex + 1, ..., and the count n - 5 of the rest if     *)
(* and only if n > 5; the new name printed for a file is the destination   *)
(* rename_files computes for it.                                           *)
(***************************************************************************)
C10_PreviewMatches ==
    (Called("preview_changes") /\ pc # "preview_changes") =>
        /\ Len(preview) = IF Len(files) < 5 THEN Len(files) ELSE 5
        /\ \A k \in 1..Len(preview) :
              preview[k].old = files[k] /\ preview[k].index = start_index + (k - 1)
        /\ more # <<>> <=> Len(files) > 5
        /\ more # <<>> => more = << Len(files) - 5 >>
        /\ \A k \in 1..Len(preview) :
              k <= Len(log) =>
                  /\ log[k].filename = preview[k].old
                  /\ log[k].new_filename = preview[k].new

\* More than five files were previewed and then all processed.
C10_Witness ==
    /\ pc = "done"
    /\ Len(files) > 5
    /\ Len(log) = Len(files)
    /\ Len(preview) = 5
    /\ more = << Len(files) - 5 >>
    /\ choice = 2

====
